---- MODULE Spec2Model ----
(***************************************************************************)
(* Realtime transport client (WebSocketClient), bounded event log          *)
(* (useEventLogger) and the demo page that wires them together             *)
(* (RealtimeConversationDemo).                                             *)
(*                                                                         *)
(* Every operation of the program is an operator from a "world" record to  *)
(* the world after the call, so that a handler which makes several calls   *)
(* (a socket callback that dispatches to listeners, a page action that     *)
(* sends two events) is one atomic step, as it is on the single-threaded   *)
(* event loop.  An action commits the world an operation returns.          *)
(***************************************************************************)
EXTENDS Integers, Sequences, FiniteSets, TLC

VARIABLES
    clients,          \* WebSocketClient instances: ws, connected, who listens
    sockets,          \* browser WebSocket objects created by connect()
    dispatched,       \* the CustomEvents the last step dispatched, in order
    notified,         \* per direction, the 'sent' / 'message' notifications in order
    thrown,           \* what the last call raised to its caller ("none")
    idCounter,        \* source of freshness of generated event ids
    sendCalls,        \* number of sendEvent calls that passed the guard
    arrivals,         \* number of inbound frames delivered by the browser
    reachedTerminal,  \* clients closed, failed, or disconnected after connect()
    events,           \* useEventLogger: the retained log entries
    maxEvents,        \* useEventLogger: its maxEvents argument
    logCounter,       \* number of addEvent calls so far
    recorded,         \* entries recorded since the last clearEvents
    connectionStatus, \* page: connectionStatus state
    wsClientRef,      \* page: wsClientRef.current (0 is null)
    timers,           \* page: clients with a pending setTimeout(.., 100)
    isRecording,      \* page: isRecording state
    audioContext,     \* page: audioContext state (0 is null)
    mediaStream,      \* page: mediaStream state (0 is null)
    audioProcessorRef,\* page: audioProcessorRef.current (0 is null)
    audioContexts,    \* number of AudioContexts created
    mediaStreams,     \* microphone streams acquired: are their tracks live
    processors,       \* ScriptProcessorNodes created: connected, stream, context
    micRequests,      \* pending getUserMedia calls of startRecording
    played,           \* audio handed to playback, in order
    pendingFunctionCalls, \* page: pendingFunctionCalls state
    codec,            \* AudioUtils: a value and what encode / decode made of it
    resampler,        \* AudioUtils: one resampleAudio call and what it returned
    voice,            \* VoiceAgentPage and its TokenRegenerationModal
    clearRequests     \* EventLogger: 'Clear events requested' lines on the console

vars == <<clients, sockets, dispatched, notified, thrown, idCounter, sendCalls, arrivals,
          reachedTerminal, events, maxEvents, logCounter, recorded,
          connectionStatus, wsClientRef, timers,
          isRecording, audioContext, mediaStream, audioProcessorRef,
          audioContexts, mediaStreams, processors, micRequests, played,
          pendingFunctionCalls, codec, resampler, voice, clearRequests>>

----------------------------------------------------------------------------
(* Bounds *)

\* clients and sockets created, sendEvent calls that got past the guard and
\* inbound frames delivered, all together
MaxOps == 6
\* sockets created over a run
MaxSockets == 2
MaxMaxEvents == 2    \* largest maxEvents tried for useEventLogger
MaxAdds == 4         \* addEvent calls on the stand-alone event log
MaxClears == 2       \* clicks on Clear of the Event Logger panel
MaxTrips == 2        \* guardrail violations recorded since the last connect

(* Program constants *)

PageMaxEvents == 200
PanelMaxEvents == 100

NoSocket == 0
NoClient == 0
Null == 0
Undefined == "<undefined>"

----------------------------------------------------------------------------
(* Values *)

Max(a, b) == IF a > b THEN a ELSE b
Min(a, b) == IF a < b THEN a ELSE b

\* event_${Date.now()}_${random}: a fresh string per call
GeneratedIds == <<"event_1", "event_2", "event_3", "event_4", "event_5",
                  "event_6", "event_7", "event_8", "event_9", "event_10">>

NullDetail == [null |-> "null"]
InvalidStateError == [name |-> "InvalidStateError"]
JSONSyntaxError == [name |-> "SyntaxError"]
CloseDetail(clean) == [code |-> IF clean THEN "1000" ELSE "1006", reason |-> ""]

\* JSON.stringify of an object whose values are strings or undefined:
\* a property whose value is undefined is left out of the text.
JSONStringify(obj) ==
    [kind |-> "json",
     value |-> [k \in {f \in DOMAIN obj : obj[f] # Undefined} |-> obj[k]]]

\* JSON.parse: the object a JSON text denotes, or a SyntaxError
JSONParse(text) ==
    IF text.kind = "json"
    THEN [ok |-> TRUE, value |-> text.value]
    ELSE [ok |-> FALSE, value |-> JSONSyntaxError]

\* { event_id: generated, ...event }: own properties of event win, also
\* an own property whose value is undefined
SpreadWithId(generated, event) ==
    [k \in {"event_id"} \cup DOMAIN event |->
        IF k \in DOMAIN event THEN event[k] ELSE generated]

\* Array.prototype.slice(start) on a sequence (start = -0 is 0)
Slice(arr, start) ==
    LET len == Len(arr)
        k == IF start < 0 THEN Max(len + start, 0) ELSE Min(start, len)
    IN  SubSeq(arr, k + 1, len)

\* events a caller may pass to sendEvent
EventInputs ==
    { [type |-> "response.create"],
      [type |-> "input_audio_buffer.commit", event_id |-> "caller_id"],
      [type |-> "input_audio_buffer.clear", event_id |-> Undefined] }

\* function calls the model may ask for: call_id, name, arguments (JSON text,
\* or text that is not JSON)
FunctionCalls ==
    { [call_id |-> "call_1", name |-> "get_weather", arguments |-> "{\"city\":\"Paris\"}"],
      [call_id |-> "call_2", name |-> "lookup", arguments |-> "{not json"] }

\* a response.done event whose response.output[0] is the function call; a
\* nested property is kept under its path
FunctionCallDone(call) ==
    [type |-> "response.done"]
        @@ ("response.output.0.type" :> "function_call")
        @@ ("response.output.0.call_id" :> call.call_id)
        @@ ("response.output.0.name" :> call.name)
        @@ ("response.output.0.arguments" :> call.arguments)

\* frames the server may send
WellFormedFrames ==
    { JSONStringify([type |-> "session.created", event_id |-> "srv_1"]),
      JSONStringify([type |-> "response.done"]),
      JSONStringify([type |-> "response.audio.delta", delta |-> "AAD/fw=="]) }
    \cup { JSONStringify(FunctionCallDone(call)) : call \in FunctionCalls }
MalformedFrames == { [kind |-> "text", value |-> [raw |-> "{not json"]] }
Frames == WellFormedFrames \cup MalformedFrames

----------------------------------------------------------------------------
(* Numbers.  JavaScript numbers are IEEE 754 doubles and the elements of a
   Float32Array are IEEE 754 singles.  A finite value is sign * m * 2^(-e)
   with m a natural number of any size, kept as a little-endian sequence of
   limbs below 2^15 so that no intermediate result leaves 32 bits.  Every
   operation computes the exact result and rounds it to nearest, ties to
   even, at the precision of its type.  Values stay far from the exponent
   limits, so overflow, subnormals, NaN and -0 do not arise. *)

LimbBits == 15
LimbBase == 32768
DoubleBits == 53
SingleBits == 24

RECURSIVE Pow2(_)
Pow2(k) == IF k = 0 THEN 1 ELSE 2 * Pow2(k - 1)

RECURSIVE IntBitLen(_)
IntBitLen(n) == IF n = 0 THEN 0 ELSE 1 + IntBitLen(n \div 2)

Limb(a, i) == IF i <= Len(a) THEN a[i] ELSE 0

RECURSIVE BigNorm(_)
BigNorm(a) ==
    IF a # <<>> /\ a[Len(a)] = 0 THEN BigNorm(SubSeq(a, 1, Len(a) - 1)) ELSE a

RECURSIVE BigFromInt(_)
BigFromInt(n) ==
    IF n = 0 THEN <<>> ELSE <<n % LimbBase>> \o BigFromInt(n \div LimbBase)

RECURSIVE BigToInt(_)
BigToInt(a) == IF a = <<>> THEN 0 ELSE a[1] + LimbBase * BigToInt(Tail(a))

RECURSIVE BigCmpFrom(_, _, _)
BigCmpFrom(a, b, i) ==
    IF i = 0 THEN 0
    ELSE IF Limb(a, i) > Limb(b, i) THEN 1
    ELSE IF Limb(a, i) < Limb(b, i) THEN 0 - 1
    ELSE BigCmpFrom(a, b, i - 1)

\* -1, 0 or 1 as a < b, a = b or a > b
BigCmp(a, b) == BigCmpFrom(a, b, Max(Len(a), Len(b)))

RECURSIVE BigAddFrom(_, _, _, _)
BigAddFrom(a, b, i, carry) ==
    IF i > Max(Len(a), Len(b))
    THEN IF carry = 0 THEN <<>> ELSE <<carry>>
    ELSE LET t == Limb(a, i) + Limb(b, i) + carry
         IN  <<t % LimbBase>> \o BigAddFrom(a, b, i + 1, t \div LimbBase)

BigAdd(a, b) == BigAddFrom(a, b, 1, 0)

RECURSIVE BigSubFrom(_, _, _, _)
BigSubFrom(a, b, i, borrow) ==
    IF i > Len(a)
    THEN <<>>
    ELSE LET t == Limb(a, i) - Limb(b, i) - borrow
         IN  <<t % LimbBase>> \o BigSubFrom(a, b, i + 1, IF t < 0 THEN 1 ELSE 0)

\* a - b for a >= b
BigSub(a, b) == BigNorm(BigSubFrom(a, b, 1, 0))

RECURSIVE BigMulSmallFrom(_, _, _, _)
BigMulSmallFrom(a, k, i, carry) ==
    IF i > Len(a)
    THEN BigFromInt(carry)
    ELSE LET t == a[i] * k + carry
         IN  <<t % LimbBase>> \o BigMulSmallFrom(a, k, i + 1, t \div LimbBase)

\* a * k for 0 <= k < 2^15
BigMulSmall(a, k) == IF k = 0 THEN <<>> ELSE BigMulSmallFrom(a, k, 1, 0)

BigShlLimbs(a, n) == IF a = <<>> THEN <<>> ELSE [i \in 1..n |-> 0] \o a

RECURSIVE BigMulFrom(_, _, _)
BigMulFrom(a, b, j) ==
    IF j > Len(b)
    THEN <<>>
    ELSE BigAdd(BigShlLimbs(BigMulSmall(a, b[j]), j - 1), BigMulFrom(a, b, j + 1))

BigMul(a, b) == BigMulFrom(a, b, 1)

\* a * 2^k
BigShl(a, k) == BigShlLimbs(BigMulSmall(a, Pow2(k % LimbBits)), k \div LimbBits)

\* floor(a / 2^k)
BigShr(a, k) ==
    LET kept == SubSeq(a, k \div LimbBits + 1, Len(a))
        d == Pow2(k % LimbBits)
    IN  BigNorm([i \in 1..Len(kept) |->
                    kept[i] \div d + (Limb(kept, i + 1) % d) * (LimbBase \div d)])

BigBitLen(a) ==
    IF a = <<>> THEN 0 ELSE LimbBits * (Len(a) - 1) + IntBitLen(a[Len(a)])

BigBit(a, i) == (Limb(a, i \div LimbBits + 1) \div Pow2(i % LimbBits)) % 2

BigIsOdd(a) == a # <<>> /\ a[1] % 2 = 1

RECURSIVE BigTrailingZeros(_, _)
BigTrailingZeros(a, i) == IF BigBit(a, i) = 1 THEN i ELSE BigTrailingZeros(a, i + 1)

\* long division of bits hi..lo of a, continuing from quotient q and
\* remainder r
RECURSIVE BigDivBits(_, _, _, _, _, _)
BigDivBits(a, b, hi, lo, q, r) ==
    IF hi < lo \/ Len(q) < 0 \/ Len(r) < 0
    THEN [q |-> q, r |-> r]
    ELSE LET r2 == BigAdd(BigMulSmall(r, 2), BigFromInt(BigBit(a, hi)))
             q2 == BigMulSmall(q, 2)
         IN  IF BigCmp(r2, b) >= 0
             THEN BigDivBits(a, b, hi - 1, lo, BigAdd(q2, <<1>>), BigSub(r2, b))
             ELSE BigDivBits(a, b, hi - 1, lo, q2, r2)

\* long division limb by limb, from limb j of a downwards
RECURSIVE BigDivLimbs(_, _, _, _)
BigDivLimbs(a, b, j, d) ==
    IF j = 0 \/ Len(d.q) < 0
    THEN d
    ELSE BigDivLimbs(a, b, j - 1,
                     BigDivBits(a, b, LimbBits * j - 1, LimbBits * (j - 1), d.q, d.r))

\* [q, r] with a = q * b + r and r < b
BigDivMod(a, b) == BigDivLimbs(a, b, Len(a), [q |-> <<>>, r |-> <<>>])

\* the value sign * m * 2^(-e), with m odd or zero
Number(sign, m, e) ==
    IF m = <<>>
    THEN [sign |-> 1, m |-> <<>>, e |-> 0]
    ELSE LET tz == BigTrailingZeros(m, 0)
         IN  [sign |-> sign, m |-> BigShr(m, tz), e |-> e - tz]

Zero == Number(1, <<>>, 0)
FromInt(n) == IF n < 0 THEN Number(0 - 1, BigFromInt(0 - n), 0) ELSE Number(1, BigFromInt(n), 0)
Negated(x) == Number(0 - x.sign, x.m, x.e)

\* m * 2^(-e), or slightly more if sticky, rounded to `bits` significant bits
RoundToNearest(bits, sign, m, e, sticky) ==
    LET n == BigBitLen(m)
    IN  IF n <= bits
        THEN Number(sign, m, e)
        ELSE LET d == n - bits
                 q == BigShr(m, d)
                 rem == BigSub(m, BigShl(q, d))
                 c == BigCmp(rem, BigShl(<<1>>, d - 1))
                 up == c > 0 \/ (c = 0 /\ (sticky \/ BigIsOdd(q)))
             IN  Number(sign, IF up THEN BigAdd(q, <<1>>) ELSE q, e - d)

\* x * y
Times(bits, x, y) == RoundToNearest(bits, x.sign * y.sign, BigMul(x.m, y.m), x.e + y.e, FALSE)

\* x / y, y not zero
DividedBy(bits, x, y) ==
    IF x.m = <<>>
    THEN Zero
    ELSE LET k == Max(0, bits + 3 + BigBitLen(y.m) - BigBitLen(x.m))
             d == BigDivMod(BigShl(x.m, k), y.m)
         IN  RoundToNearest(bits, x.sign * y.sign, d.q, x.e - y.e + k, d.r # <<>>)

\* x + y
Plus(bits, x, y) ==
    LET e == Max(x.e, y.e)
        mx == BigShl(x.m, e - x.e)
        my == BigShl(y.m, e - y.e)
        c == BigCmp(mx, my)
    IN  IF x.sign = y.sign
        THEN RoundToNearest(bits, x.sign, BigAdd(mx, my), e, FALSE)
        ELSE IF c >= 0
        THEN RoundToNearest(bits, x.sign, BigSub(mx, my), e, FALSE)
        ELSE RoundToNearest(bits, y.sign, BigSub(my, mx), e, FALSE)

Minus(bits, x, y) == Plus(bits, x, Negated(y))

\* x < y
Less(x, y) == Minus(DoubleBits, x, y).sign < 0

\* the integer part of |x|, as an integer
Magnitude(x) == IF x.e <= 0 THEN BigToInt(BigShl(x.m, 0 - x.e)) ELSE BigToInt(BigShr(x.m, x.e))

\* Math.floor(x) for x >= 0
Floor(x) == Magnitude(x)

\* Math.fround: the single nearest to a double
Fround(x) == RoundToNearest(SingleBits, x.sign, x.m, x.e, FALSE)

----------------------------------------------------------------------------
(* AudioUtils *)

One == FromInt(1)
MinusOne == FromInt(0 - 1)

MathMax(x, y) == IF Less(x, y) THEN y ELSE x
MathMin(x, y) == IF Less(y, x) THEN y ELSE x

\* DataView.setInt16(offset, value, true): ToInt16 truncates toward zero and
\* wraps modulo 2^16; the two bytes are stored low byte first
SetInt16(value) ==
    LET int == value.sign * Magnitude(value)
        int16bit == int % 65536
    IN  <<int16bit % 256, int16bit \div 256>>

\* DataView.getInt16(offset, true)
GetInt16(low, high) ==
    LET int16bit == low + 256 * high
    IN  IF int16bit >= 32768 THEN int16bit - 65536 ELSE int16bit

RECURSIVE floatTo16BitPCM(_)
floatTo16BitPCM(float32Array) ==
    IF float32Array = <<>>
    THEN <<>>
    ELSE LET clampedValue == MathMax(MinusOne, MathMin(One, Head(float32Array)))
             pcmValue == IF Less(clampedValue, Zero)
                         THEN Times(DoubleBits, clampedValue, FromInt(32768))
                         ELSE Times(DoubleBits, clampedValue, FromInt(32767))
         IN  SetInt16(pcmValue) \o floatTo16BitPCM(Tail(float32Array))

\* base64 text is the sequence of its characters, a character being its
\* place in the base64 alphabet and '=' being 64
PadChar == 64

\* btoa of a binary string, given as its bytes
RECURSIVE btoa(_)
btoa(bytes) ==
    CASE Len(bytes) = 0 -> <<>>
      [] Len(bytes) = 1 ->
            <<bytes[1] \div 4, (bytes[1] % 4) * 16, PadChar, PadChar>>
      [] Len(bytes) = 2 ->
            <<bytes[1] \div 4, (bytes[1] % 4) * 16 + bytes[2] \div 16,
              (bytes[2] % 16) * 4, PadChar>>
      [] OTHER ->
            <<bytes[1] \div 4, (bytes[1] % 4) * 16 + bytes[2] \div 16,
              (bytes[2] % 16) * 4 + bytes[3] \div 64, bytes[3] % 64>>
            \o btoa(SubSeq(bytes, 4, Len(bytes)))

RECURSIVE atobBytes(_)
atobBytes(text) ==
    CASE Len(text) < 2 -> <<>>
      [] Len(text) = 2 -> <<text[1] * 4 + text[2] \div 16>>
      [] Len(text) = 3 ->
            <<text[1] * 4 + text[2] \div 16, (text[2] % 16) * 16 + text[3] \div 4>>
      [] OTHER ->
            <<text[1] * 4 + text[2] \div 16, (text[2] % 16) * 16 + text[3] \div 4,
              (text[3] % 4) * 64 + text[4]>>
            \o atobBytes(SubSeq(text, 5, Len(text)))

\* atob (forgiving-base64 decode): the bytes, or an InvalidCharacterError
atob(text) ==
    LET n == Len(text)
        data == IF n > 0 /\ n % 4 = 0 /\ text[n] = PadChar
                THEN IF text[n - 1] = PadChar
                     THEN SubSeq(text, 1, n - 2)
                     ELSE SubSeq(text, 1, n - 1)
                ELSE text
    IN  IF Len(data) % 4 = 1 \/ \E i \in DOMAIN data : data[i] = PadChar
        THEN [ok |-> FALSE, bytes |-> <<>>]
        ELSE [ok |-> TRUE, bytes |-> atobBytes(data)]

\* (String.fromCharCode in chunks of 0x8000 builds the binary string of all
\* the bytes, in order)
base64EncodeAudio(float32Array) == btoa(floatTo16BitPCM(float32Array))

\* new Float32Array(bytes.length / 2) has length ToIndex(bytes.length / 2),
\* the quotient truncated; storing into it rounds to single precision
base64DecodeAudio(base64String) ==
    LET binary == atob(base64String)
        bytes == binary.bytes
        length == Len(bytes) \div 2
    IN  IF ~binary.ok
        THEN [kind |-> "error", name |-> "InvalidCharacterError"]
        ELSE [kind |-> "samples",
              samples |->
                [i \in 1..length |->
                    LET pcmValue == GetInt16(bytes[2 * i - 1], bytes[2 * i])
                    IN  Fround(IF pcmValue < 0
                               THEN DividedBy(DoubleBits, FromInt(pcmValue), FromInt(32768))
                               ELSE DividedBy(DoubleBits, FromInt(pcmValue), FromInt(32767)))]]

\* resampleAudio, the source indices of output[i]: indexFloor, indexCeil and
\* the fraction between them
SourceIndex(length, ratio, i) ==
    LET index == Times(DoubleBits, FromInt(i), ratio)
        indexFloor == Floor(index)
    IN  [indexFloor |-> indexFloor,
         indexCeil |-> Min(indexFloor + 1, length - 1),
         fraction |-> Minus(DoubleBits, index, FromInt(indexFloor))]

outputLength(length, inputSampleRate, outputSampleRate) ==
    LET ratio == DividedBy(DoubleBits, FromInt(inputSampleRate), FromInt(outputSampleRate))
    IN  Floor(DividedBy(DoubleBits, FromInt(length), ratio))

resampleAudio(inputData, inputSampleRate, outputSampleRate) ==
    IF inputSampleRate = outputSampleRate
    THEN inputData
    ELSE LET ratio == DividedBy(DoubleBits, FromInt(inputSampleRate),
                                FromInt(outputSampleRate))
         IN  [o \in 1..outputLength(Len(inputData), inputSampleRate, outputSampleRate) |->
                LET at == SourceIndex(Len(inputData), ratio, o - 1)
                IN  Fround(Plus(DoubleBits,
                                Times(DoubleBits, inputData[at.indexFloor + 1],
                                      Minus(DoubleBits, One, at.fraction)),
                                Times(DoubleBits, inputData[at.indexCeil + 1],
                                      at.fraction)))]

----------------------------------------------------------------------------
(* The world *)

World ==
    [clients |-> clients, sockets |-> sockets, dispatched |-> dispatched,
     notified |-> notified,
     thrown |-> thrown, idCounter |-> idCounter, sendCalls |-> sendCalls,
     arrivals |-> arrivals, reachedTerminal |-> reachedTerminal,
     events |-> events, maxEvents |-> maxEvents, logCounter |-> logCounter,
     recorded |-> recorded, connectionStatus |-> connectionStatus,
     wsClientRef |-> wsClientRef, timers |-> timers,
     isRecording |-> isRecording, audioContext |-> audioContext,
     mediaStream |-> mediaStream, audioProcessorRef |-> audioProcessorRef,
     audioContexts |-> audioContexts, mediaStreams |-> mediaStreams,
     processors |-> processors, micRequests |-> micRequests, played |-> played,
     pendingFunctionCalls |-> pendingFunctionCalls]

\* the world at the start of a call: nothing raised or dispatched yet
Start == [World EXCEPT !.thrown = "none", !.dispatched = <<>>]

Commit(w) ==
    /\ clients' = w.clients
    /\ sockets' = w.sockets
    /\ dispatched' = w.dispatched
    /\ notified' = w.notified
    /\ thrown' = w.thrown
    /\ idCounter' = w.idCounter
    /\ sendCalls' = w.sendCalls
    /\ arrivals' = w.arrivals
    /\ reachedTerminal' = w.reachedTerminal
    /\ events' = w.events
    /\ maxEvents' = w.maxEvents
    /\ logCounter' = w.logCounter
    /\ recorded' = w.recorded
    /\ connectionStatus' = w.connectionStatus
    /\ wsClientRef' = w.wsClientRef
    /\ timers' = w.timers
    /\ isRecording' = w.isRecording
    /\ audioContext' = w.audioContext
    /\ mediaStream' = w.mediaStream
    /\ audioProcessorRef' = w.audioProcessorRef
    /\ audioContexts' = w.audioContexts
    /\ mediaStreams' = w.mediaStreams
    /\ processors' = w.processors
    /\ micRequests' = w.micRequests
    /\ played' = w.played
    /\ pendingFunctionCalls' = w.pendingFunctionCalls
    /\ UNCHANGED <<codec, resampler, voice, clearRequests>>

\* what a run has used of MaxOps
Used == Len(clients) + Len(sockets) + sendCalls + arrivals
            + Len(mediaStreams) + Len(micRequests) + voice.calls


----------------------------------------------------------------------------
(* useEventLogger *)

\* addEvent: append the entry, keep newEvents.slice(-maxEvents)
addEvent(w, event, direction) ==
    LET entry == [id |-> <<direction, w.logCounter + 1>>,
                  direction |-> direction,
                  event |-> event]
        newEvents == Append(w.events, entry)
    IN  [w EXCEPT !.events = Slice(newEvents, 0 - w.maxEvents),
                  !.logCounter = @ + 1,
                  !.recorded = Append(@, entry)]

\* a clear that only logs the request and leaves the entries
clearEvents_logOnly(w) == w

\* clearEvents: setEvents([])
clearEvents(w) == [w EXCEPT !.events = <<>>, !.recorded = <<>>]

----------------------------------------------------------------------------
(* RealtimeConversationDemo: the listeners connectToRealtime registers *)

\* handleIncomingEvent as the 'message' listener of client c holds it: the
\* closure of the render in which connectToRealtime was called, with the
\* audioContext of that render
handleIncomingEvent(w, c, event) ==
    CASE event.type = "response.done" ->
            IF /\ "response.output.0.type" \in DOMAIN event
               /\ event["response.output.0.type"] = "function_call"
            THEN [w EXCEPT !.pendingFunctionCalls =
                     Append(@, [call_id |-> event["response.output.0.call_id"],
                                name |-> event["response.output.0.name"],
                                arguments |-> event["response.output.0.arguments"]])]
            ELSE w
      [] event.type = "response.audio.delta" ->
            IF "delta" \in DOMAIN event /\ event.delta # "" /\ w.clients[c].audioContext # Null
            THEN [w EXCEPT !.played = Append(@, [audioContext |-> w.clients[c].audioContext,
                                                 delta |-> event.delta])]
            ELSE w
      [] OTHER -> w

\* the listeners with the direction tag of 'message' copied to 'sent'
PageListeners_sameTag(w, c, type, detail) ==
    CASE type = "connected" -> [w EXCEPT !.connectionStatus = "connected"]
      [] type = "disconnected" -> [w EXCEPT !.connectionStatus = "disconnected",
                                            !.isRecording = FALSE]
      [] type = "error" -> [w EXCEPT !.connectionStatus = "error"]
      [] type = "message" -> handleIncomingEvent(addEvent(w, detail, "received"), c, detail)
      [] type = "sent" -> addEvent(w, detail, "received")
      [] OTHER -> w

\* the listeners connectToRealtime adds to client c (they also set the
\* error text, which nothing here reads)
PageListeners(w, c, type, detail) ==
    CASE type = "connected" -> [w EXCEPT !.connectionStatus = "connected"]
      [] type = "disconnected" -> [w EXCEPT !.connectionStatus = "disconnected",
                                            !.isRecording = FALSE]
      [] type = "error" -> [w EXCEPT !.connectionStatus = "error"]
      [] type = "message" -> handleIncomingEvent(addEvent(w, detail, "received"), c, detail)
      [] type = "sent" -> addEvent(w, detail, "sent")
      [] OTHER -> w

----------------------------------------------------------------------------
(* WebSocketClient *)

\* EventTarget.dispatchEvent: listeners run synchronously, in this call
dispatchEvent(w, c, type, detail, tag) ==
    LET w1 == [w EXCEPT !.dispatched =
                   Append(@, [client |-> c, type |-> type,
                              detail |-> detail, tag |-> tag]),
                        !.notified =
                   IF type \in {"sent", "message"}
                   THEN [@ EXCEPT ![type] = Append(@, tag)]
                   ELSE @]
    IN  IF w.clients[c].listeners = "page"
        THEN PageListeners(w1, c, type, detail)
        ELSE w1

isConnected(w, c) == w.clients[c].connected

\* connect() without its already-connected guard
connect_unguarded(w, c, urlOk) ==
    IF ~urlOk
    THEN [w EXCEPT !.thrown = "SyntaxError"]
    ELSE [w EXCEPT !.sockets = Append(@, [owner |-> c,
                                          readyState |-> "CONNECTING",
                                          willError |-> FALSE,
                                          promise |-> "pending",
                                          wire |-> <<>>]),
                   !.clients[c].ws = Len(w.sockets) + 1]

\* connect(): urlOk is whether new WebSocket(url, protocols) accepts its
\* arguments (it throws a SyntaxError otherwise)
connect(w, c, urlOk) ==
    IF w.clients[c].connected
    THEN [w EXCEPT !.thrown = "AlreadyConnectedError"]
    ELSE IF ~urlOk
    THEN [w EXCEPT !.thrown = "SyntaxError"]
    ELSE LET s == Len(w.sockets) + 1
         IN  [w EXCEPT !.sockets = Append(@, [owner |-> c,
                                              readyState |-> "CONNECTING",
                                              willError |-> FALSE,
                                              promise |-> "pending",
                                              wire |-> <<>>]),
                       !.clients[c].ws = s]

\* a catch block that reports the error and marks the client closed
sendEventCatch_closing(w, c, error, n) ==
    dispatchEvent([w EXCEPT !.clients[c].connected = FALSE], c, "error", error, n)

\* the catch block of sendEvent
sendEventCatch(w, c, error, n) ==
    dispatchEvent(w, c, "error", error, n)

\* the try block of sendEvent handing events over in front of earlier ones
sendEventTry_unshift(w, c, event) ==
    LET s == w.clients[c].ws
        n == w.sendCalls + 1
        eventWithId == SpreadWithId(GeneratedIds[w.idCounter + 1], event)
        w1 == [w EXCEPT !.idCounter = @ + 1, !.sendCalls = n]
    IN  IF w.sockets[s].readyState = "CONNECTING"
        THEN sendEventCatch(w1, c, InvalidStateError, n)
        ELSE dispatchEvent(
                [w1 EXCEPT !.sockets[s].wire =
                    <<[call |-> n, text |-> JSONStringify(eventWithId)]>> \o @],
                c, "sent", eventWithId, n)

\* the try block of sendEvent, once the guard has passed.  WebSocket.send
\* throws InvalidStateError on a CONNECTING socket and accepts the text
\* otherwise.
sendEventTry(w, c, event) ==
    LET s == w.clients[c].ws
        n == w.sendCalls + 1
        eventWithId == SpreadWithId(GeneratedIds[w.idCounter + 1], event)
        w1 == [w EXCEPT !.idCounter = @ + 1, !.sendCalls = n]
    IN  IF w.sockets[s].readyState = "CONNECTING"
        THEN sendEventCatch(w1, c, InvalidStateError, n)
        ELSE dispatchEvent(
                [w1 EXCEPT !.sockets[s].wire =
                    Append(@, [call |-> n, text |-> JSONStringify(eventWithId)])],
                c, "sent", eventWithId, n)

\* sendEvent whose guard tests the socket handle only
sendEvent_handleOnly(w, c, event) ==
    IF w.clients[c].ws = NoSocket
    THEN [w EXCEPT !.thrown = "NotConnectedError"]
    ELSE sendEventTry(w, c, event)

sendEvent(w, c, event) ==
    IF ~w.clients[c].connected \/ w.clients[c].ws = NoSocket
    THEN [w EXCEPT !.thrown = "NotConnectedError"]
    ELSE sendEventTry(w, c, event)

\* WebSocket.close() as the browser performs it
SocketCloseCall(w, s) ==
    CASE w.sockets[s].readyState = "CONNECTING" ->
            [w EXCEPT !.sockets[s].readyState = "CLOSING",
                      !.sockets[s].willError = TRUE]
      [] w.sockets[s].readyState = "OPEN" ->
            [w EXCEPT !.sockets[s].readyState = "CLOSING"]
      [] OTHER -> w

\* disconnect that resets `connected` only when it holds a socket
disconnect_insideIf(w, c) ==
    IF w.clients[c].ws # NoSocket
    THEN [SocketCloseCall(w, w.clients[c].ws) EXCEPT
             !.clients[c].ws = NoSocket,
             !.clients[c].connected = FALSE,
             !.reachedTerminal = @ \cup {c}]
    ELSE w

disconnect(w, c) ==
    LET w1 == IF w.clients[c].ws # NoSocket
              THEN [SocketCloseCall(w, w.clients[c].ws) EXCEPT !.clients[c].ws = NoSocket]
              ELSE w
    IN  [w1 EXCEPT !.clients[c].connected = FALSE,
                   !.reachedTerminal =
                       IF w.clients[c].ws # NoSocket \/ w.clients[c].connected
                       THEN @ \cup {c} ELSE @]

----------------------------------------------------------------------------
(* RealtimeConversationDemo: what follows `await client.connect()` *)

\* the promise resolved: wsClientRef.current = client; setTimeout(..., 100)
afterConnect(w, c) ==
    [w EXCEPT !.wsClientRef = c, !.timers = @ \cup {c}]

\* the promise rejected: the catch block of connectToRealtime
connectCatch(w) == [w EXCEPT !.connectionStatus = "error", !.thrown = "none"]

----------------------------------------------------------------------------
(* The callbacks connect() installs on the socket.  They close over the
   client, not over the socket the client currently holds. *)

onopen(w, s) ==
    LET c == w.sockets[s].owner
        w1 == [w EXCEPT !.clients[c].connected = TRUE]
        w2 == dispatchEvent(w1, c, "connected", NullDetail, 0)
    IN  IF w2.sockets[s].promise = "pending"
        THEN LET w3 == [w2 EXCEPT !.sockets[s].promise = "resolved"]
             IN  IF w3.clients[c].listeners = "page" THEN afterConnect(w3, c) ELSE w3
        ELSE w2

onclose(w, s, clean) ==
    LET c == w.sockets[s].owner
        w1 == [w EXCEPT !.clients[c].connected = FALSE,
                        !.reachedTerminal = @ \cup {c}]
    IN  dispatchEvent(w1, c, "disconnected", CloseDetail(clean), 0)

onerror(w, s) ==
    LET c == w.sockets[s].owner
        w1 == [w EXCEPT !.clients[c].connected = FALSE,
                        !.reachedTerminal = @ \cup {c}]
        w2 == dispatchEvent(w1, c, "error", [name |-> "Event"], 0)
    IN  IF w2.sockets[s].promise = "pending"
        THEN LET w3 == [w2 EXCEPT !.sockets[s].promise = "rejected"]
             IN  IF w3.clients[c].listeners = "page" THEN connectCatch(w3) ELSE w3
        ELSE w2

\* onmessage that treats a parse error as fatal
onmessage_fatalParseError(w, s, frame) ==
    LET c == w.sockets[s].owner
        n == w.arrivals + 1
        w1 == [w EXCEPT !.arrivals = n]
        data == JSONParse(frame)
    IN  IF data.ok
        THEN dispatchEvent(w1, c, "message", data.value, n)
        ELSE dispatchEvent([w1 EXCEPT !.clients[c].connected = FALSE],
                           c, "error", data.value, n)

onmessage(w, s, frame) ==
    LET c == w.sockets[s].owner
        n == w.arrivals + 1
        w1 == [w EXCEPT !.arrivals = n]
        data == JSONParse(frame)
    IN  IF data.ok
        THEN dispatchEvent(w1, c, "message", data.value, n)
        ELSE dispatchEvent(w1, c, "error", data.value, n)

\* the browser closes the socket: readyState becomes CLOSED, then an error
\* event if the connection failed, then the close event, in one task (the
\* rejection of the connect() promise is handled between the two)
socketClosed(w, s, failed) ==
    LET w1 == [w EXCEPT !.sockets[s].readyState = "CLOSED"]
    IN  IF failed THEN onclose(onerror(w1, s), s, FALSE) ELSE onclose(w1, s, TRUE)

socketOpened(w, s) == onopen([w EXCEPT !.sockets[s].readyState = "OPEN"], s)

----------------------------------------------------------------------------
(* RealtimeConversationDemo: the page's operations *)

\* the listeners close over the handleIncomingEvent of the render in which
\* Connect was clicked, and it over that render's audioContext
connectToRealtime(w, urlOk) ==
    LET c == Len(w.clients) + 1
        w1 == [w EXCEPT !.connectionStatus = "connecting",
                        !.clients = Append(@, [ws |-> NoSocket,
                                               connected |-> FALSE,
                                               listeners |-> "page",
                                               audioContext |-> w.audioContext])]
        w2 == connect(w1, c, urlOk)
    IN  IF w2.thrown # "none" THEN connectCatch(w2) ELSE w2

\* stopRecording as a closure that saw the mediaStream state `seen`
stopRecording(w, seen) ==
    LET w1 == IF w.audioProcessorRef # Null
              THEN [w EXCEPT !.processors[w.audioProcessorRef].connected = FALSE,
                             !.audioProcessorRef = Null]
              ELSE w
        w2 == IF seen # Null
              THEN [w1 EXCEPT !.mediaStreams[seen].live = FALSE,
                              !.mediaStream = Null]
              ELSE w1
    IN  [w2 EXCEPT !.isRecording = FALSE]

\* the page's disconnect: useCallback(.., []) keeps the function of the
\* first render, whose stopRecording saw mediaStream = null
pageDisconnect(w) ==
    LET w1 == IF w.wsClientRef # NoClient
              THEN [disconnect(w, w.wsClientRef) EXCEPT !.wsClientRef = NoClient]
              ELSE w
        w2 == stopRecording(w1, Null)
    IN  [w2 EXCEPT !.connectionStatus = "disconnected"]

\* a block the processing node captured at the context's rate, the block
\* resampleAudio makes of it, and the text base64EncodeAudio makes of either
CapturedBlock == [samples |-> "microphone", rate |-> "context"]
ResampledBlock(block) == [block EXCEPT !.rate = "api"]
EncodedBlock(block) ==
    IF block.rate = "api" THEN "base64(pcm16(resampled))" ELSE "base64(pcm16(captured))"

\* the callback startRecording gives to createAudioProcessor
onAudioData(w, audioData) ==
    IF w.wsClientRef # NoClient /\ isConnected(w, w.wsClientRef)
    THEN sendEvent(w, w.wsClientRef,
                   [type |-> "input_audio_buffer.append", audio |-> EncodedBlock(audioData)])
    ELSE w

\* startRecording up to `await getUserMedia`
startRecording(w) ==
    IF w.wsClientRef = NoClient \/ ~isConnected(w, w.wsClientRef)
    THEN w
    ELSE LET created == w.audioContext = Null
             audioCtx == IF created THEN w.audioContexts + 1 ELSE w.audioContext
         IN  [w EXCEPT !.audioContexts = IF created THEN audioCtx ELSE @,
                       !.audioContext = audioCtx,
                       !.micRequests = Append(@, [audioCtx |-> audioCtx])]

\* micRequests without its r-th element
Settle(requests, r) ==
    SubSeq(requests, 1, r - 1) \o SubSeq(requests, r + 1, Len(requests))

\* startRecording after getUserMedia resolved: createAudioProcessor connects
\* source -> processor -> destination
micGranted(w, r) ==
    LET stream == Len(w.mediaStreams) + 1
        processor == Len(w.processors) + 1
    IN  [w EXCEPT !.micRequests = Settle(@, r),
                  !.mediaStreams = Append(@, [live |-> TRUE]),
                  !.mediaStream = stream,
                  !.processors = Append(@, [connected |-> TRUE,
                                            stream |-> stream,
                                            audioCtx |-> w.micRequests[r].audioCtx]),
                  !.audioProcessorRef = processor,
                  !.isRecording = TRUE]

\* startRecording after getUserMedia rejected: the catch block
micDenied(w, r) == [w EXCEPT !.micRequests = Settle(@, r)]

\* setTimeout callback: if (client.isConnected()) client.updateSession(..)
sessionUpdateTimer(w, c) ==
    LET w1 == [w EXCEPT !.timers = @ \ {c}]
    IN  IF isConnected(w1, c)
        THEN sendEvent(w1, c, [type |-> "session.update", session |-> "sessionConfig"])
        ELSE w1

\* createConversationItem(..) then createResponse()
sendTextMessage(w, text) ==
    IF w.wsClientRef = NoClient \/ ~isConnected(w, w.wsClientRef)
    THEN w
    ELSE LET c == w.wsClientRef
             w1 == sendEvent(w, c, [type |-> "conversation.item.create", item |-> text])
         IN  IF w1.thrown # "none"
             THEN w1
             ELSE sendEvent(w1, c, [type |-> "response.create", response |-> "{}"])

\* what the mock execution in executeFunctionCall returns for a call
FunctionResult(name, args) ==
    CASE args = "{not json" -> "{\"error\":\"Failed to parse arguments\"}"
      [] name = "get_weather" -> "{\"weather\":..,\"temperature\":72,\"condition\":\"sunny\"}"
      [] name = "calculate" -> "{\"result\":..,\"expression\":..}"
      [] OTHER -> "{\"message\":..,\"args\":..}"

\* prev.filter(call => call.call_id !== callId)
WithoutCall(prev, callId) == SelectSeq(prev, LAMBDA call : call.call_id # callId)

\* an executeFunctionCall that empties the pending list
executeFunctionCall_clearAll(w, callId, name, args) ==
    [w EXCEPT !.pendingFunctionCalls = <<>>]

\* executeFunctionCall: reply if the current client is connected, then
\* drop the call from the pending list
executeFunctionCall(w, callId, name, args) ==
    LET c == w.wsClientRef
        item == ("item.type" :> "function_call_output")
                    @@ ("item.call_id" :> callId)
                    @@ ("item.output" :> FunctionResult(name, args))
        w1 == IF c # NoClient /\ isConnected(w, c)
              THEN LET w2 == sendEvent(w, c, [type |-> "conversation.item.create"] @@ item)
                   IN  IF w2.thrown # "none"
                       THEN w2
                       ELSE sendEvent(w2, c, [type |-> "response.create", response |-> "{}"])
              ELSE w
    IN  IF w1.thrown # "none"
        THEN w1
        ELSE [w1 EXCEPT !.pendingFunctionCalls = WithoutCall(@, callId)]

----------------------------------------------------------------------------
(* Calls and callbacks on clients and sockets *)

TheClient == 1

ConnectOf(c, urlOk) ==
    /\ urlOk => (Used < MaxOps /\ Len(sockets) < MaxSockets)
    /\ Commit(connect(Start, c, urlOk))

SendEventOf(c, event) ==
    /\ (clients[c].connected /\ clients[c].ws # NoSocket) => Used < MaxOps
    /\ Commit(sendEvent(Start, c, event))

DisconnectOf(c) == Commit(disconnect(Start, c))

SocketOpenOn(s) ==
    /\ sockets[s].readyState = "CONNECTING"
    /\ Commit(socketOpened(Start, s))

SocketClosedOn(s, failed) ==
    /\ sockets[s].readyState \in {"CONNECTING", "OPEN", "CLOSING"}
    /\ sockets[s].readyState = "CONNECTING" => failed
    /\ sockets[s].readyState = "CLOSING" => failed = sockets[s].willError
    /\ Commit(socketClosed(Start, s, failed))

SocketMessageOn(s, frame) ==
    /\ sockets[s].readyState = "OPEN"
    /\ Used < MaxOps
    /\ Commit(onmessage(Start, s, frame))

----------------------------------------------------------------------------
(* One WebSocketClient under arbitrary calls *)

\* no resampleAudio call
NoResampling ==
    [inputData |-> <<>>, inputSampleRate |-> 1, outputSampleRate |-> 1,
     returned |-> FALSE, output |-> <<>>]

\* VoiceAgentPage and TokenRegenerationModal as useState initialises them;
\* tokenCalls, connectCalls and regenerateCalls are the promises of
\* getValidToken, session.connect and regenerateToken that are pending;
\* the n-th connectToAgent call makes session n, and interrupts are the
\* interrupt() calls the last step made on sessions
VoiceAgentPage ==
    [isConnected |-> FALSE, isConnecting |-> FALSE, session |-> FALSE,
     error |-> FALSE, showTokenModal |-> FALSE, currentToken |-> FALSE,
     isRegenerating |-> FALSE, modalError |-> FALSE,
     guardrailViolations |-> <<>>, interrupts |-> <<>>,
     tokenCalls |-> 0, connectCalls |-> 0, regenerateCalls |-> 0,
     calls |-> 0, attempts |-> 0, clicks |-> 0, regenerated |-> 0]

\* the Realtime demo page's audio and function-call state as useState /
\* useRef initialise it
NoAudio ==
    /\ isRecording = FALSE
    /\ audioContext = Null
    /\ mediaStream = Null
    /\ audioProcessorRef = Null
    /\ audioContexts = 0
    /\ mediaStreams = <<>>
    /\ processors = <<>>
    /\ micRequests = <<>>
    /\ played = <<>>
    /\ pendingFunctionCalls = <<>>

\* no AudioUtils call and the Voice Agent page untouched
NoCalls ==
    /\ codec = <<>>
    /\ resampler = NoResampling
    /\ voice = VoiceAgentPage
    /\ clearRequests = 0

Connect == \E urlOk \in BOOLEAN : ConnectOf(TheClient, urlOk)

SendEvent == \E event \in EventInputs : SendEventOf(TheClient, event)

Disconnect == \E c \in {TheClient} : DisconnectOf(c)

SocketOpen == \E s \in DOMAIN sockets : SocketOpenOn(s)

SocketClosed == \E s \in DOMAIN sockets, failed \in BOOLEAN : SocketClosedOn(s, failed)

SocketMessage == \E s \in DOMAIN sockets, frame \in Frames : SocketMessageOn(s, frame)

Init ==
    /\ clients = <<[ws |-> NoSocket, connected |-> FALSE, listeners |-> "none",
                    audioContext |-> Null]>>
    /\ sockets = <<>>
    /\ dispatched = <<>>
    /\ notified = [sent |-> <<>>, message |-> <<>>]
    /\ thrown = "none"
    /\ idCounter = 0
    /\ sendCalls = 0
    /\ arrivals = 0
    /\ reachedTerminal = {}
    /\ events = <<>>
    /\ maxEvents = PageMaxEvents
    /\ logCounter = 0
    /\ recorded = <<>>
    /\ connectionStatus = "disconnected"
    /\ wsClientRef = NoClient
    /\ timers = {}
    /\ NoAudio
    /\ NoCalls

Next ==
    \/ Connect
    \/ SendEvent
    \/ Disconnect
    \/ SocketOpen
    \/ SocketClosed
    \/ SocketMessage

Spec == Init /\ [][Next]_vars

----------------------------------------------------------------------------
(* useEventLogger(maxEvents) on its own *)

LogEventInputs == { [type |-> "response.create", event_id |-> "event_1"],
                    [type |-> "session.created"] }

AddEvent ==
    \E event \in LogEventInputs, direction \in {"sent", "received"} :
        /\ logCounter < MaxAdds
        /\ Commit(addEvent(Start, event, direction))

ClearEvents ==
    /\ TRUE
    /\ Commit(clearEvents(Start))

InitLog ==
    /\ clients = <<>>
    /\ sockets = <<>>
    /\ dispatched = <<>>
    /\ notified = [sent |-> <<>>, message |-> <<>>]
    /\ thrown = "none"
    /\ idCounter = 0
    /\ sendCalls = 0
    /\ arrivals = 0
    /\ reachedTerminal = {}
    /\ events = <<>>
    /\ maxEvents \in 0..MaxMaxEvents
    /\ logCounter = 0
    /\ recorded = <<>>
    /\ connectionStatus = "disconnected"
    /\ wsClientRef = NoClient
    /\ timers = {}
    /\ NoAudio
    /\ NoCalls

NextLog ==
    \/ AddEvent
    \/ ClearEvents

SpecLog == InitLog /\ [][NextLog]_vars

----------------------------------------------------------------------------
(* The Realtime demo page *)

\* Connect is shown unless connected and enabled unless connecting
ClickConnect ==
    \E urlOk \in BOOLEAN :
        /\ connectionStatus \notin {"connected", "connecting"}
        /\ Used + 1 < MaxOps
        /\ urlOk => Len(sockets) < MaxSockets
        /\ Commit(connectToRealtime(Start, urlOk))

\* Disconnect is shown while connected
ClickDisconnect ==
    /\ connectionStatus = "connected"
    /\ Commit(pageDisconnect(Start))

TimerFires ==
    \E c \in timers :
        /\ Used < MaxOps
        /\ Commit(sessionUpdateTimer(Start, c))

\* Enter in the text area calls sendTextMessage whatever the status
SendText ==
    \E text \in {"hello"} :
        /\ Used + 1 < MaxOps
        /\ Commit(sendTextMessage(Start, text))

\* Start Recording is shown unless recording, enabled while connected
ClickStartRecording ==
    /\ ~isRecording
    /\ connectionStatus = "connected"
    /\ Used < MaxOps
    /\ Commit(startRecording(Start))

\* Stop Recording is shown while recording; its stopRecording is the one
\* of the current render
ClickStopRecording ==
    /\ isRecording
    /\ Commit(stopRecording(Start, mediaStream))

MicGranted ==
    \E r \in DOMAIN micRequests : Commit(micGranted(Start, r))

\* Execute of the i-th pending call, enabled whatever the status
ExecuteFunctionCallOf(i) ==
    /\ i \in DOMAIN pendingFunctionCalls
    /\ (wsClientRef # NoClient /\ clients[wsClientRef].connected) => Used + 1 < MaxOps
    /\ Commit(executeFunctionCall(Start, pendingFunctionCalls[i].call_id,
                                   pendingFunctionCalls[i].name,
                                   pendingFunctionCalls[i].arguments))

ExecuteFunctionCall == \E i \in DOMAIN pendingFunctionCalls : ExecuteFunctionCallOf(i)

MicDenied ==
    \E r \in DOMAIN micRequests : Commit(micDenied(Start, r))

\* onaudioprocess of a node that is connected to the destination
AudioProcess ==
    \E p \in DOMAIN processors :
        /\ processors[p].connected
        /\ Used < MaxOps
        /\ Commit(onAudioData(Start, CapturedBlock))

\* the Realtime demo page as useState / useRef initialise it
PageAtRest ==
    /\ clients = <<>>
    /\ sockets = <<>>
    /\ dispatched = <<>>
    /\ notified = [sent |-> <<>>, message |-> <<>>]
    /\ thrown = "none"
    /\ idCounter = 0
    /\ sendCalls = 0
    /\ arrivals = 0
    /\ reachedTerminal = {}
    /\ events = <<>>
    /\ maxEvents = PageMaxEvents
    /\ logCounter = 0
    /\ recorded = <<>>
    /\ connectionStatus = "disconnected"
    /\ wsClientRef = NoClient
    /\ timers = {}
    /\ NoAudio

InitPage ==
    /\ PageAtRest
    /\ NoCalls

NextPage ==
    \/ ClickConnect
    \/ ClickDisconnect
    \/ TimerFires
    \/ SendText
    \/ ClickStartRecording
    \/ ClickStopRecording
    \/ MicGranted
    \/ MicDenied
    \/ AudioProcess
    \/ ExecuteFunctionCall
    \/ SocketOpen
    \/ SocketClosed
    \/ SocketMessage

SpecPage == InitPage /\ [][NextPage]_vars

----------------------------------------------------------------------------
(* Properties of WebSocketClient, checked under Spec *)

IsOpen(c) == clients[c].connected
HeldSocket(c) == clients[c].ws

\* the world after the step that was just taken, ready for another call
StartNext == [World' EXCEPT !.thrown = "none", !.dispatched = <<>>]

\* C1: sendEvent on a client that is not Open (never connected, handshake
\* pending, closed, failed or disconnected) raises the not-connected error,
\* hands nothing to any socket and dispatches no notification, so no 'sent'.
C1_SendWhenNotOpenFails ==
    [][\A c \in DOMAIN clients, event \in EventInputs :
          (SendEventOf(c, event) /\ ~IsOpen(c))
             => /\ thrown' = "NotConnectedError"
                /\ sockets' = sockets
                /\ dispatched' = <<>>
                /\ notified' = notified]_vars

\* sendEvent was refused while the handshake of the held socket is pending
C1_Witness ==
    /\ thrown = "NotConnectedError"
    /\ ~IsOpen(TheClient)
    /\ HeldSocket(TheClient) # NoSocket
    /\ sockets[HeldSocket(TheClient)].readyState = "CONNECTING"

\* C2: connect() on an Open client raises the already-connected error and
\* changes nothing: no socket is created, the held handle is the same and
\* isConnected() stays true.
C2_ConnectWhenOpenFails ==
    [][\A c \in DOMAIN clients, urlOk \in BOOLEAN :
          (ConnectOf(c, urlOk) /\ IsOpen(c))
             => /\ thrown' = "AlreadyConnectedError"
                /\ sockets' = sockets
                /\ clients' = clients
                /\ isConnected(World', c)]_vars

\* connect() was refused on an Open client holding an open socket
C2_Witness ==
    /\ thrown = "AlreadyConnectedError"
    /\ IsOpen(TheClient)
    /\ HeldSocket(TheClient) # NoSocket
    /\ sockets[HeldSocket(TheClient)].readyState = "OPEN"

\* C3: Closed and Failed are terminal: a client that was closed, failed or
\* disconnected is never Open (isConnected() true) afterwards.
C3_TerminalStaysTerminal ==
    [][\A c \in DOMAIN clients :
          c \in reachedTerminal => ~isConnected(World', c)]_vars

\* C4: disconnect() from any state raises nothing, leaves isConnected()
\* false and the socket handle null, and a second disconnect() right after
\* it changes nothing at all.
C4_DisconnectIdempotent ==
    \A c \in DOMAIN clients :
        LET w1 == disconnect(Start, c)
            w2 == disconnect([w1 EXCEPT !.thrown = "none"], c)
        IN  /\ w1.thrown = "none"
            /\ ~isConnected(w1, c)
            /\ w1.clients[c].ws = NoSocket
            /\ w2 = w1

\* disconnect() released the socket the client held while the socket of an
\* earlier connect() was pending; that socket opened since, so the client is
\* Open without holding a socket, and disconnect() is enabled again
C4_Witness ==
    /\ IsOpen(TheClient)
    /\ HeldSocket(TheClient) = NoSocket
    /\ TheClient \in reachedTerminal
    /\ \E s \in DOMAIN sockets : sockets[s].readyState = "CLOSING"

\* C5: a frame that does not parse, arriving on an Open client, dispatches
\* one 'error' notification and no 'message'; the client and its sockets
\* are unchanged, so isConnected() is still true, a well-formed frame
\* arriving next is delivered as 'message' and sendEvent still hands its
\* event to the socket and notifies 'sent'.
C5_ParseErrorIsNotFatal ==
    [][\A s \in DOMAIN sockets, bad \in MalformedFrames :
          (SocketMessageOn(s, bad) /\ IsOpen(sockets[s].owner))
             => LET c == sockets[s].owner
                IN  /\ Len(dispatched') = 1
                    /\ dispatched'[1].type = "error"
                    /\ dispatched'[1].client = c
                    /\ notified' = notified
                    /\ isConnected(World', c)
                    /\ clients' = clients
                    /\ sockets' = sockets
                    /\ \A frame \in WellFormedFrames :
                          LET w == onmessage(StartNext, s, frame)
                          IN  /\ Len(w.dispatched) = 1
                              /\ w.dispatched[1].type = "message"
                              /\ w.dispatched[1].detail = JSONParse(frame).value
                    /\ HeldSocket(c) = s
                          => \A event \in EventInputs :
                                LET w == sendEvent(StartNext, c, event)
                                IN  /\ w.thrown = "none"
                                    /\ Len(w.sockets[s].wire) = Len(sockets[s].wire) + 1
                                    /\ w.dispatched[1].type = "sent"]_vars

\* a malformed frame was just handled by an Open client on the socket it holds
C5_Witness ==
    /\ Len(dispatched) = 1
    /\ dispatched[1].type = "error"
    /\ dispatched[1].detail = JSONSyntaxError
    /\ IsOpen(TheClient)
    /\ HeldSocket(TheClient) # NoSocket
    /\ sockets[HeldSocket(TheClient)].readyState = "OPEN"

\* C6: every event sendEvent hands to the socket carries an event_id, the
\* caller's if the caller supplied one and a generated one otherwise, and
\* the 'sent' notification of the call carries exactly the transmitted
\* event, with every field of the caller's event.
C6_EveryOutboundEventHasId ==
    [][\A c \in DOMAIN clients, event \in EventInputs :
          (SendEventOf(c, event) /\ sockets' # sockets)
             => LET s == HeldSocket(c)
                    handed == sockets'[s].wire[Len(sockets'[s].wire)].text
                    transmitted == JSONParse(handed).value
                IN  /\ "event_id" \in DOMAIN transmitted
                    /\ "event_id" \in DOMAIN event
                          => transmitted["event_id"] = event["event_id"]
                    /\ "event_id" \notin DOMAIN event
                          => transmitted["event_id"] = GeneratedIds[idCounter + 1]
                    /\ \A k \in DOMAIN event :
                          k \in DOMAIN transmitted /\ transmitted[k] = event[k]
                    /\ Len(dispatched') = 1
                    /\ dispatched'[1].type = "sent"
                    /\ dispatched'[1].detail = transmitted]_vars

IsIncreasing(seq) == \A i, j \in DOMAIN seq : i < j => seq[i] < seq[j]

WireCalls(s) == [i \in DOMAIN sockets[s].wire |-> sockets[s].wire[i].call]

\* C7: each direction keeps its order: events are handed to a socket, and
\* their 'sent' notifications dispatched, in the order of the sendEvent
\* calls, with one 'sent' per handed event; 'message' notifications are
\* dispatched in the order the frames arrived.
C7_OrderPreserved ==
    /\ \A s \in DOMAIN sockets : IsIncreasing(WireCalls(s))
    /\ IsIncreasing(notified.sent)
    /\ IsIncreasing(notified.message)
    /\ \A s \in DOMAIN sockets : \A i \in DOMAIN sockets[s].wire :
          \E j \in DOMAIN notified.sent : notified.sent[j] = sockets[s].wire[i].call
    /\ Len(sockets) = 1 => notified.sent = WireCalls(1)

\* two events were handed to one socket and two frames were delivered
C7_Witness ==
    /\ \E s \in DOMAIN sockets : Len(sockets[s].wire) = 2
    /\ Len(notified.sent) = 2
    /\ Len(notified.message) = 2

----------------------------------------------------------------------------
(* Properties of useEventLogger, checked under SpecLog *)

\* C8: the number of retained log entries never exceeds maxEvents.
C8_LogNeverExceedsMax == Len(events) <= maxEvents

\* C9: the retained entries are the last min(n, maxEvents) of the n entries
\* recorded since the last clear, in recording order.
C9_LogKeepsLastEntries ==
    LET n == Len(recorded)
    IN  events = SubSeq(recorded, n - Min(n, maxEvents) + 1, n)

\* C11: clearEvents empties the log whatever it retained (nothing, some
\* entries, maxEvents entries), and an addEvent on the emptied log leaves
\* nothing in it but the entry of that call.
C11_ClearEmptiesLog ==
    LET cleared == clearEvents(Start)
    IN  /\ cleared.events = <<>>
        /\ \A event \in LogEventInputs, direction \in {"sent", "received"} :
              LET refilled == addEvent(cleared, event, direction).events
              IN  /\ Len(refilled) <= 1
                  /\ \A i \in DOMAIN refilled :
                        /\ refilled[i].event = event
                        /\ refilled[i].direction = direction

\* a log that was cleared after entries were recorded, and refilled since
C11_Witness ==
    /\ maxEvents >= 1
    /\ logCounter > Len(recorded)
    /\ events # <<>>
    /\ events = recorded

----------------------------------------------------------------------------
(* Properties of the Realtime demo page, checked under SpecPage *)

\* the wire entries this step handed to some socket
NewlyHanded ==
    UNION { { sockets'[s].wire[i] : i \in {j \in DOMAIN sockets'[s].wire :
                                              sockets'[s].wire[j].call > sendCalls} }
            : s \in DOMAIN sockets' }

\* the events of the well-formed frames this step delivered
NewlyReceived ==
    { JSONParse(frame).value :
        frame \in {f \in WellFormedFrames :
                      \E s \in DOMAIN sockets : SocketMessageOn(s, f)} }

\* C10: the log records every transport event exactly once, with its
\* direction: a step adds one 'sent' entry for each event it handed to a
\* socket, holding that event, one 'received' entry for the well-formed
\* frame it delivered, and no other entry, and keeps the entries it had.
C10_LogObservesEveryEvent ==
    [][LET added == {j \in DOMAIN events' : j > Len(events)}
       IN  /\ SubSeq(events', 1, Len(events)) = events
           /\ Cardinality(added) = Cardinality(NewlyHanded) + Cardinality(NewlyReceived)
           /\ \A h \in NewlyHanded :
                 Cardinality({j \in added :
                                 /\ events'[j].direction = "sent"
                                 /\ JSONStringify(events'[j].event) = h.text}) = 1
           /\ \A e \in NewlyReceived :
                 Cardinality({j \in added :
                                 /\ events'[j].direction = "received"
                                 /\ events'[j].event = e}) = 1]_vars

\* the log holds both events of a text message and a frame received after
C10_Witness ==
    /\ Len(events) >= 3
    /\ events[Len(events)].direction = "received"
    /\ Len(dispatched) = 1
    /\ dispatched[1].type = "message"
    /\ \E i, j \in DOMAIN events :
          i < j /\ events[i].direction = "sent" /\ events[j].direction = "sent"

----------------------------------------------------------------------------
(* Audio on the Realtime demo page, checked under SpecPage *)

\* C12: when capture is stopped, by Stop Recording or by the page's
\* disconnect, every track of the acquired media stream is stopped and the
\* processing node is disconnected, so that its callback fires no more.
C12_StopReleasesCapture ==
    [][(ClickStopRecording \/ ClickDisconnect) =>
          /\ mediaStream # Null => ~mediaStreams'[mediaStream].live
          /\ audioProcessorRef # Null => ~processors'[audioProcessorRef].connected]_vars

\* C13: at most one client the page created is Open at any time, and an
\* Open client is the one wsClientRef holds.
C13_AtMostOneOpenClient ==
    \A c1, c2 \in DOMAIN clients :
        /\ (clients[c1].connected /\ clients[c2].connected) => c1 = c2
        /\ clients[c1].connected => wsClientRef = c1

\* C14: at most one microphone capture is live at any time: no second
\* media stream is acquired while an earlier one has live tracks, and a
\* connected processing node is the one audioProcessorRef holds.
C14_AtMostOneCapture ==
    /\ Cardinality({m \in DOMAIN mediaStreams : mediaStreams[m].live}) <= 1
    /\ \A p \in DOMAIN processors : processors[p].connected => audioProcessorRef = p

\* the response.audio.delta events with a payload the page has received
AudioDeltasReceived ==
    {i \in DOMAIN events :
        /\ events[i].direction = "received"
        /\ events[i].event.type = "response.audio.delta"
        /\ events[i].event.delta # ""}

\* C15: every response.audio.delta with a non-empty payload the page
\* receives is decoded and handed to playback, whenever the audio context
\* was created and whether or not the user ever recorded.
C15_EveryAudioDeltaPlayed == Len(played) = Cardinality(AudioDeltasReceived)

\* C16: every input_audio_buffer.append handed to a socket carries the
\* encoding of a block that went through the resampler first.
C16_AppendedAudioIsResampled ==
    \A s \in DOMAIN sockets : \A i \in DOMAIN sockets[s].wire :
        LET event == sockets[s].wire[i].text.value
        IN  event.type = "input_audio_buffer.append" =>
                event.audio = EncodedBlock(ResampledBlock(CapturedBlock))

----------------------------------------------------------------------------
(* AudioUtils: the PCM16 codec on its own *)

MaxSamples == 2      \* longest sample sequence encoded
MaxBytes == 3        \* longest byte buffer decoded
MaxCodecCalls == 2   \* encode / decode calls applied in a row

pageVars == <<clients, sockets, dispatched, notified, thrown, idCounter, sendCalls,
              arrivals, reachedTerminal, events, maxEvents, logCounter, recorded,
              connectionStatus, wsClientRef, timers,
              isRecording, audioContext, mediaStream, audioProcessorRef,
              audioContexts, mediaStreams, processors, micRequests, played,
              pendingFunctionCalls>>

SeqsUpTo(S, n) == UNION { [1..k -> S] : k \in 0..n }

Third == Fround(DividedBy(DoubleBits, One, FromInt(3)))

\* elements of a Float32Array: inside [-1, 1], and 2 outside it
SampleValues == {Zero, One, MinusOne, Third, Negated(Third), FromInt(2)}

ByteValues == {0, 1, 127, 128, 255}

\* what base64EncodeAudio is given, and what base64DecodeAudio is given:
\* the base64 text of a byte buffer, or the text "A", which is not base64
CodecInputs ==
    { [kind |-> "samples", samples |-> x] :
        x \in SeqsUpTo(SampleValues, MaxSamples) \cup {<<One, MinusOne, Zero>>} }
    \cup { [kind |-> "base64", base64 |-> btoa(b)] : b \in SeqsUpTo(ByteValues, MaxBytes) }
    \cup { [kind |-> "base64", base64 |-> <<0>>] }

Held == codec[Len(codec)]

Encode ==
    /\ Len(codec) <= MaxCodecCalls
    /\ Held.kind = "samples"
    /\ codec' = Append(codec, [kind |-> "base64",
                               base64 |-> base64EncodeAudio(Held.samples)])
    /\ UNCHANGED <<pageVars, resampler, voice, clearRequests>>

Decode ==
    /\ Len(codec) <= MaxCodecCalls
    /\ Held.kind = "base64"
    /\ codec' = Append(codec, base64DecodeAudio(Held.base64))
    /\ UNCHANGED <<pageVars, resampler, voice, clearRequests>>

InitCodec ==
    /\ PageAtRest
    /\ codec \in { <<input>> : input \in CodecInputs }
    /\ resampler = NoResampling
    /\ voice = VoiceAgentPage
    /\ clearRequests = 0

NextCodec ==
    \/ Encode
    \/ Decode

SpecCodec == InitCodec /\ [][NextCodec]_vars

\* C17: decoding a buffer of odd byte length fails with an invalid-length
\* error and yields no samples; decoding an empty buffer yields no samples
\* and no error.
C17_OddLengthDecodeFails ==
    \A i \in 2..Len(codec) :
        (codec[i - 1].kind = "base64" /\ atob(codec[i - 1].base64).ok) =>
            LET bytes == atob(codec[i - 1].base64).bytes
            IN  /\ Len(bytes) % 2 = 1 =>
                      codec[i] = [kind |-> "error", name |-> "InvalidLengthError"]
                /\ Len(bytes) = 0 =>
                      codec[i] = [kind |-> "samples", samples |-> <<>>]

\* x and y differ by at most 1/32767
WithinOneStep(x, y) ==
    LET d == Minus(DoubleBits + DoubleBits, x, y)
    IN  ~Less(One, Times(DoubleBits + DoubleBits, Number(1, d.m, d.e), FromInt(32767)))

InRange(x) == ~Less(x, MinusOne) /\ ~Less(One, x)

\* C18: decoding the encoding of samples in [-1, 1] gives as many samples,
\* each within 1/32767 of the original; 1, -1 and 0 encode as 32767, -32768
\* and 0 and decode back to themselves; and encoding what was decoded from
\* 16-bit values gives those 16-bit values again.
C18_RoundTrip ==
    /\ (/\ Len(codec) >= 3
        /\ codec[1].kind = "samples"
        /\ \A i \in DOMAIN codec[1].samples : InRange(codec[1].samples[i])) =>
            /\ codec[3].kind = "samples"
            /\ Len(codec[3].samples) = Len(codec[1].samples)
            /\ \A i \in DOMAIN codec[1].samples :
                  WithinOneStep(codec[3].samples[i], codec[1].samples[i])
    /\ (Len(codec) >= 2 /\ codec[1] = [kind |-> "samples", samples |-> <<One, MinusOne, Zero>>]) =>
            atob(codec[2].base64).bytes = <<255, 127, 0, 128, 0, 0>>
    /\ (Len(codec) >= 3 /\ codec[1] = [kind |-> "samples", samples |-> <<One, MinusOne, Zero>>]) =>
            codec[3] = codec[1]
    /\ (/\ Len(codec) >= 3
        /\ codec[1].kind = "base64"
        /\ atob(codec[1].base64).ok
        /\ Len(atob(codec[1].base64).bytes) % 2 = 0) =>
            /\ codec[3].kind = "base64"
            /\ atob(codec[3].base64).bytes = atob(codec[1].base64).bytes

----------------------------------------------------------------------------
(* AudioUtils: resampleAudio on its own *)

MaxInputLength == 9  \* longest input resampled

\* input and output rates: halving, doubling, equal rates, 3:2, 9:7, and the
\* rates of audio devices against the 24 kHz of the API
RatePairs ==
    { <<2, 1>>, <<1, 2>>, <<2, 2>>, <<3, 2>>, <<9, 7>>,
      <<48000, 24000>>, <<44100, 24000>>, <<24000, 24000>>, <<16000, 24000>> }

\* the samples 0, 1, 2, ..
Ramp(n) == [i \in 1..n |-> FromInt(i - 1)]

Resample ==
    /\ ~resampler.returned
    /\ resampler' = [resampler EXCEPT
                        !.returned = TRUE,
                        !.output = resampleAudio(resampler.inputData,
                                                 resampler.inputSampleRate,
                                                 resampler.outputSampleRate)]
    /\ UNCHANGED <<pageVars, codec, voice, clearRequests>>

InitResample ==
    /\ PageAtRest
    /\ codec = <<>>
    /\ voice = VoiceAgentPage
    /\ clearRequests = 0
    /\ resampler \in { [inputData |-> Ramp(n),
                         inputSampleRate |-> r[1], outputSampleRate |-> r[2],
                         returned |-> FALSE, output |-> <<>>] :
                           n \in 0..MaxInputLength, r \in RatePairs }

NextResample == Resample

SpecResample == InitResample /\ [][NextResample]_vars

\* C19: resampleAudio returns its input when the rates are equal, and
\* otherwise floor(inputLength * outputRate / inputRate) samples, each
\* computed from source indices within [0, inputLength - 1]; resampling
\* [0, 1, 2, 3] from rate 2 to rate 1 gives [0, 2].
C19_ResampleLength ==
    resampler.returned =>
        LET length == Len(resampler.inputData)
            in == resampler.inputSampleRate
            out == resampler.outputSampleRate
            ratio == DividedBy(DoubleBits, FromInt(in), FromInt(out))
        IN  /\ in = out => resampler.output = resampler.inputData
            /\ in # out =>
                  /\ Len(resampler.output) = (length * out) \div in
                  /\ \A o \in DOMAIN resampler.output :
                        LET at == SourceIndex(length, ratio, o - 1)
                        IN  /\ at.indexFloor \in 0..(length - 1)
                            /\ at.indexCeil \in 0..(length - 1)
            /\ (length = 4 /\ in = 2 /\ out = 1) =>
                  resampler.output = <<FromInt(0), FromInt(2)>>

----------------------------------------------------------------------------
(* The Voice Agent page with its TokenRegenerationModal, and both pages *)

\* connectToAgent up to its first await: with a token at hand it calls
\* session.connect, otherwise it asks TokenService.getValidToken first
connectToAgent(v, token) ==
    LET v1 == [v EXCEPT !.isConnecting = TRUE, !.error = FALSE,
                        !.guardrailViolations = <<>>,
                        !.attempts = @ + 1]
    IN  IF token \/ v.currentToken
        THEN [v1 EXCEPT !.currentToken = TRUE, !.connectCalls = @ + 1]
        ELSE [v1 EXCEPT !.tokenCalls = @ + 1]

\* getValidToken resolved: setCurrentToken, then session.connect
tokenObtained(v) ==
    [v EXCEPT !.tokenCalls = @ - 1, !.currentToken = TRUE, !.connectCalls = @ + 1]

\* the catch and finally blocks of connectToAgent
connectFailed(v) ==
    [v EXCEPT !.showTokenModal = TRUE, !.error = TRUE, !.isConnecting = FALSE]

\* getValidToken rejected
tokenFailed(v) == connectFailed([v EXCEPT !.tokenCalls = @ - 1])

\* session.connect resolved
connectResolved(v) ==
    [v EXCEPT !.connectCalls = @ - 1, !.session = TRUE, !.isConnected = TRUE,
              !.isConnecting = FALSE]

connectRejected_retrying(v) ==
    connectToAgent(connectFailed([v EXCEPT !.connectCalls = @ - 1]), FALSE)

\* session.connect rejected
connectRejected(v) ==
    connectFailed([v EXCEPT !.connectCalls = @ - 1])

handleTokenRegenerated(v) ==
    connectToAgent([v EXCEPT !.currentToken = TRUE, !.error = FALSE,
                             !.showTokenModal = FALSE], TRUE)

\* handleRegenerate up to its await
handleRegenerate(v) ==
    [v EXCEPT !.isRegenerating = TRUE, !.modalError = FALSE,
              !.regenerateCalls = @ + 1]

\* regenerateToken resolved: onTokenRegenerated(newToken); isRegenerating
\* is left as it is
regenerateResolved(v) ==
    handleTokenRegenerated([v EXCEPT !.regenerateCalls = @ - 1,
                                     !.regenerated = @ + 1])

\* regenerateToken rejected
regenerateRejected(v) ==
    [v EXCEPT !.regenerateCalls = @ - 1, !.modalError = TRUE,
              !.isRegenerating = FALSE]

\* onClose of the modal
closeTokenModal(v) == [v EXCEPT !.showTokenModal = FALSE]

\* disconnect of the Voice Agent page
agentDisconnect(v) ==
    IF v.session THEN [v EXCEPT !.session = FALSE, !.isConnected = FALSE] ELSE v

\* is event[f] there and truthy
Truthy(event, f) == f \in DOMAIN event /\ event[f] # ""

\* the name the 'guardrail_tripped' listener extracts (a nested property
\* is kept under its path)
guardrailName(event) ==
    CASE Truthy(event, "guardrail_name") -> event.guardrail_name
      [] Truthy(event, "name") -> event.name
      [] Truthy(event, "guardrail.name") -> event["guardrail.name"]
      [] Truthy(event, "type") -> event.type
      [] OTHER -> "Unknown Guardrail"

\* the details the listener extracts: the first of details, outputInfo,
\* info, data, guardrail.details, or the rest of the event
guardrailDetails(event) ==
    CASE Truthy(event, "details") -> [value |-> event.details]
      [] Truthy(event, "outputInfo") -> [value |-> event.outputInfo]
      [] Truthy(event, "info") -> [value |-> event.info]
      [] Truthy(event, "data") -> [value |-> event.data]
      [] Truthy(event, "guardrail.details") -> [value |-> event["guardrail.details"]]
      [] OTHER -> [k \in DOMAIN event \ {"guardrail_name", "name", "guardrail.name",
                                          "guardrail.details", "type"} |-> event[k]]

\* a listener that interrupts first, outside any try block
guardrailTripped_interruptFirst(v, session, event, interruptThrows) ==
    LET v1 == [v EXCEPT !.interrupts =
                   Append(@, [session |-> session, threw |-> interruptThrows])]
    IN  IF interruptThrows
        THEN v1
        ELSE [v1 EXCEPT !.guardrailViolations =
                 Append(@, [name |-> guardrailName(event),
                            details |-> guardrailDetails(event)])]

\* the 'guardrail_tripped' listener of a session: record the violation,
\* then newSession.interrupt() inside try / catch
guardrailTripped(v, session, event, interruptThrows) ==
    [v EXCEPT !.guardrailViolations =
                  Append(@, [name |-> guardrailName(event),
                             details |-> guardrailDetails(event)]),
              !.interrupts =
                  Append(@, [session |-> session, threw |-> interruptThrows])]

\* a step of the Voice Agent page; of the interrupt() calls it keeps those
\* this step made
VoiceStep(v) ==
    /\ voice' = [v EXCEPT !.interrupts =
                     SubSeq(@, Len(voice.interrupts) + 1, Len(@))]
    /\ UNCHANGED <<pageVars, codec, resampler, clearRequests>>

\* Connect is shown unless connected and enabled unless connecting
ClickConnectToAgent ==
    /\ ~voice.isConnected
    /\ ~voice.isConnecting
    /\ Used + 1 < MaxOps
    /\ VoiceStep([connectToAgent(voice, FALSE) EXCEPT !.clicks = @ + 1,
                                                      !.calls = @ + 1])

TokenObtained ==
    /\ voice.tokenCalls > 0
    /\ VoiceStep(tokenObtained(voice))

TokenFailed ==
    /\ voice.tokenCalls > 0
    /\ VoiceStep(tokenFailed(voice))

SessionConnected ==
    /\ voice.connectCalls > 0
    /\ VoiceStep(connectResolved(voice))

SessionConnectFailed ==
    /\ voice.connectCalls > 0
    /\ VoiceStep(connectRejected(voice))

\* Regenerate Token is there while the modal is open, enabled unless
\* regenerating
ClickRegenerate ==
    /\ voice.showTokenModal
    /\ ~voice.isRegenerating
    /\ Used + 1 < MaxOps
    /\ VoiceStep([handleRegenerate(voice) EXCEPT !.calls = @ + 1])

TokenRegenerated ==
    /\ voice.regenerateCalls > 0
    /\ VoiceStep(regenerateResolved(voice))

TokenRegenerationFailed ==
    /\ voice.regenerateCalls > 0
    /\ VoiceStep(regenerateRejected(voice))

\* Cancel is there while the modal is open, enabled unless regenerating
ClickCancel ==
    /\ voice.showTokenModal
    /\ ~voice.isRegenerating
    /\ VoiceStep(closeTokenModal(voice))

\* Disconnect is shown while connected
ClickAgentDisconnect ==
    /\ voice.isConnected
    /\ VoiceStep(agentDisconnect(voice))

NextVoice ==
    \/ ClickConnectToAgent
    \/ TokenObtained
    \/ TokenFailed
    \/ SessionConnected
    \/ SessionConnectFailed
    \/ ClickRegenerate
    \/ TokenRegenerated
    \/ TokenRegenerationFailed
    \/ ClickCancel
    \/ ClickAgentDisconnect

NextApp ==
    \/ NextPage
    \/ NextVoice

SpecApp == InitPage /\ [][NextApp]_vars

\* C20: no connection attempt starts by itself. On the Voice Agent page a
\* step starts an attempt only if it is a click on Connect or the success
\* of a token regeneration, and a regeneration is requested only by a click
\* on Regenerate; a step in which a connect or a token request fails starts
\* no attempt. On the Realtime demo page a step makes a client or a socket
\* only if it is a click on Connect.
C20_NoAutomaticConnect ==
    [][/\ voice'.attempts > voice.attempts =>
              /\ ClickConnectToAgent \/ TokenRegenerated
              /\ voice'.attempts = voice.attempts + 1
       /\ voice'.regenerateCalls > voice.regenerateCalls => ClickRegenerate
       /\ (TokenFailed \/ SessionConnectFailed \/ TokenRegenerationFailed) =>
              /\ voice'.attempts = voice.attempts
              /\ voice'.tokenCalls <= voice.tokenCalls
              /\ voice'.connectCalls <= voice.connectCalls
              /\ voice'.regenerateCalls <= voice.regenerateCalls
       /\ (Len(clients') > Len(clients) \/ Len(sockets') > Len(sockets)) =>
              ClickConnect]_vars

\* a connect failed on the Voice Agent page, the user had a token
\* regenerated, the connect that followed failed as well and nothing is
\* pending; and a connect of the Realtime demo page failed
C20_Witness ==
    /\ voice.clicks = 1
    /\ voice.regenerated = 1
    /\ voice.attempts = 2
    /\ voice.showTokenModal
    /\ voice.tokenCalls + voice.connectCalls + voice.regenerateCalls = 0
    /\ Len(clients) = 1
    /\ connectionStatus = "error"

----------------------------------------------------------------------------
(* Function calls on the Realtime demo page, checked under SpecPage *)

\* the events a step handed to socket s, in order
HandedTo(s) ==
    [k \in 1..(Len(sockets'[s].wire) - Len(sockets[s].wire)) |->
        sockets'[s].wire[Len(sockets[s].wire) + k].text.value]

\* C21: executing a pending function call while the current client is
\* connected hands to its socket a conversation.item.create whose item is a
\* function_call_output with the call's call_id, then a response.create and
\* nothing else, on no other socket, and leaves the pending list without
\* the calls of that call_id, the others in their order.
C21_ExecuteRepliesThenRemoves ==
    [][\A i \in DOMAIN pendingFunctionCalls :
          (/\ ExecuteFunctionCallOf(i)
           /\ wsClientRef # NoClient
           /\ clients[wsClientRef].connected) =>
              LET call == pendingFunctionCalls[i]
                  s == clients[wsClientRef].ws
              IN  /\ s # NoSocket
                  /\ Len(HandedTo(s)) = 2
                  /\ HandedTo(s)[1].type = "conversation.item.create"
                  /\ HandedTo(s)[1]["item.type"] = "function_call_output"
                  /\ HandedTo(s)[1]["item.call_id"] = call.call_id
                  /\ HandedTo(s)[2].type = "response.create"
                  /\ SubSeq(sockets'[s].wire, 1, Len(sockets[s].wire)) = sockets[s].wire
                  /\ \A t \in DOMAIN sockets : t # s => sockets'[t].wire = sockets[t].wire
                  /\ pendingFunctionCalls' =
                        SelectSeq(pendingFunctionCalls,
                                  LAMBDA other : other.call_id # call.call_id)]_vars

\* call_1 was executed while call_2 was pending: its reply and the
\* response.create are next to each other on the wire and call_2 is still
\* pending
C21_Witness ==
    /\ Len(pendingFunctionCalls) = 1
    /\ pendingFunctionCalls[1].call_id = "call_2"
    /\ \E s \in DOMAIN sockets : \E k \in 1..(Len(sockets[s].wire) - 1) :
          /\ sockets[s].wire[k].text.value.type = "conversation.item.create"
          /\ "item.call_id" \in DOMAIN sockets[s].wire[k].text.value
          /\ sockets[s].wire[k].text.value["item.call_id"] = "call_1"
          /\ sockets[s].wire[k + 1].text.value.type = "response.create"

----------------------------------------------------------------------------
(* Connection status of the Realtime demo page, checked under SpecPage *)

\* the handshake of the page's latest client failed
HandshakeFailed ==
    /\ clients # <<>>
    /\ clients[Len(clients)].ws # NoSocket
    /\ sockets[clients[Len(clients)].ws].promise = "rejected"

\* C22: when a socket fails before it opened, the step rejects the
\* connect() promise, leaves the client not connected and the page's status
\* 'error'; and while the latest client is one whose handshake failed and
\* the status is 'error', only a click on Connect or Disconnect changes it.
C22_HandshakeFailureStaysError ==
    [][/\ \A s \in DOMAIN sockets :
              (sockets[s].readyState = "CONNECTING" /\ SocketClosedOn(s, TRUE)) =>
                  /\ sockets'[s].promise = "rejected"
                  /\ ~clients'[sockets[s].owner].connected
                  /\ connectionStatus' = "error"
       /\ (HandshakeFailed /\ connectionStatus = "error"
              /\ ~ClickConnect /\ ~ClickDisconnect) =>
                  connectionStatus' = "error"]_vars

----------------------------------------------------------------------------
(* A send the socket refuses, checked under Spec *)

\* C23: every 'sent' notification is for an event a socket accepted; and
\* when sendEvent is called on an Open client whose socket refuses the send,
\* it dispatches one 'error' notification and no 'sent', hands nothing to
\* any socket, raises nothing and leaves isConnected() true.
C23_FailedSendIsNotSent ==
    [][/\ \A i \in DOMAIN notified'.sent :
              \E s \in DOMAIN sockets' : \E k \in DOMAIN sockets'[s].wire :
                  sockets'[s].wire[k].call = notified'.sent[i]
       /\ \A c \in DOMAIN clients, event \in EventInputs :
              (/\ SendEventOf(c, event)
               /\ IsOpen(c)
               /\ HeldSocket(c) # NoSocket
               /\ sockets[HeldSocket(c)].readyState = "CONNECTING") =>
                  /\ Len(dispatched') = 1
                  /\ dispatched'[1].type = "error"
                  /\ dispatched'[1].client = c
                  /\ notified' = notified
                  /\ sockets' = sockets
                  /\ thrown' = "none"
                  /\ isConnected(World', c)]_vars

\* sendEvent was called on an Open client holding a socket that is still
\* connecting: the send was refused and reported as an error
C23_Witness ==
    /\ Len(dispatched) = 1
    /\ dispatched[1].type = "error"
    /\ dispatched[1].detail = InvalidStateError
    /\ thrown = "none"
    /\ IsOpen(TheClient)
    /\ sendCalls > 0

----------------------------------------------------------------------------
(* The Event Logger panel of the Realtime demo page *)

\* the panel as the page renders it: <EventLogger events={events} />, so
\* maxEvents is the default and there is no handler for clearing
Panel == [events |-> events, maxEvents |-> PanelMaxEvents, clearRequests |-> clearRequests]

\* events.slice(-maxEvents)
displayedEvents(panel) == Slice(panel.events, 0 - panel.maxEvents)

\* clearEvents of EventLogger: console.log('Clear events requested')
panelClearEvents(panel) == [panel EXCEPT !.clearRequests = @ + 1]

ClickClear ==
    /\ clearRequests < MaxClears
    /\ clearRequests' = panelClearEvents(Panel).clearRequests
    /\ events' = panelClearEvents(Panel).events
    /\ UNCHANGED <<clients, sockets, dispatched, notified, thrown, idCounter,
                   sendCalls, arrivals, reachedTerminal, maxEvents, logCounter,
                   recorded, connectionStatus, wsClientRef, timers, isRecording,
                   audioContext, mediaStream, audioProcessorRef, audioContexts,
                   mediaStreams, processors, micRequests, played,
                   pendingFunctionCalls, codec, resampler, voice>>

\* the page records events through addEvent and the user clicks Clear
NextPanel ==
    \/ AddEvent
    \/ ClickClear

SpecPanel == InitPage /\ [][NextPanel]_vars

\* C24: a click on Clear of the Event Logger panel leaves the panel with no
\* entry displayed (until the page records another event).
C24_ClearEmptiesPanel ==
    [][ClickClear => displayedEvents(Panel') = <<>>]_vars

----------------------------------------------------------------------------
(* The Voice Agent page with the events of its sessions *)

\* what a session may pass to its 'guardrail_tripped' listeners
GuardrailEvents ==
    { [guardrail_name |-> "no_profanity", details |-> "matched"],
      [type |-> "guardrail_tripped", name |-> ""],
      [result |-> "blocked"] }

\* session n, made by the n-th connectToAgent call, emits guardrail_tripped
GuardrailTrippedOf(session, event, interruptThrows) ==
    /\ session \in 1..voice.attempts
    /\ Used < MaxOps
    /\ Len(voice.guardrailViolations) < MaxTrips
    /\ VoiceStep([guardrailTripped(voice, session, event, interruptThrows)
                     EXCEPT !.calls = @ + 1])

GuardrailTripped ==
    \E session \in 1..voice.attempts, event \in GuardrailEvents,
       interruptThrows \in BOOLEAN :
        GuardrailTrippedOf(session, event, interruptThrows)

NextSession ==
    \/ NextVoice
    \/ GuardrailTripped

SpecVoice == InitPage /\ [][NextSession]_vars

\* C25: a guardrail_tripped notification of a session appends one violation
\* record and keeps the records there were, in order, and calls interrupt()
\* once, on that session, whether or not the call throws.
C25_GuardrailRecordedAndInterrupted ==
    [][\A session \in 1..voice.attempts, event \in GuardrailEvents,
          interruptThrows \in BOOLEAN :
          GuardrailTrippedOf(session, event, interruptThrows) =>
              /\ Len(voice'.guardrailViolations) = Len(voice.guardrailViolations) + 1
              /\ SubSeq(voice'.guardrailViolations, 1, Len(voice.guardrailViolations))
                    = voice.guardrailViolations
              /\ voice'.guardrailViolations[Len(voice'.guardrailViolations)].name
                    = guardrailName(event)
              /\ Len(voice'.interrupts) = 1
              /\ voice'.interrupts[1].session = session]_vars

\* two guardrails tripped since the last connect and both are recorded,
\* the second by a step whose interrupt() call threw
C25_Witness ==
    /\ Len(voice.guardrailViolations) = 2
    /\ voice.guardrailViolations[1].name = "no_profanity"
    /\ voice.guardrailViolations[2].name = "Unknown Guardrail"
    /\ Len(voice.interrupts) = 1
    /\ voice.interrupts[1].threw

----------------------------------------------------------------------------
(* Pending function calls and the connection, checked under SpecPage *)

\* the function_call_output replies with this call_id that the step handed
\* to socket s
RepliesHanded(s, callId) ==
    {k \in (Len(sockets[s].wire) + 1)..Len(sockets'[s].wire) :
        LET event == sockets'[s].wire[k].text.value
        IN  /\ event.type = "conversation.item.create"
            /\ "item.call_id" \in DOMAIN event
            /\ event["item.type"] = "function_call_output"
            /\ event["item.call_id"] = callId}

\* C26: no function call is lost: a step in which a call leaves the pending
\* list hands a function_call_output with its call_id to a socket, also
\* when the call is executed while the client is not connected.
C26_NoFunctionCallLost ==
    [][\A i \in DOMAIN pendingFunctionCalls :
          LET call == pendingFunctionCalls[i]
          IN  (\A j \in DOMAIN pendingFunctionCalls' :
                  pendingFunctionCalls'[j].call_id # call.call_id) =>
                      \E s \in DOMAIN sockets : RepliesHanded(s, call.call_id) # {}]_vars

\* C27: the displayed status agrees with the transport: connectionStatus
\* is 'connected' exactly when the client wsClientRef holds is connected.
C27_StatusAgreesWithTransport ==
    (connectionStatus = "connected") <=>
        (wsClientRef # NoClient /\ clients[wsClientRef].connected)

----------------------------------------------------------------------------
(* The socket an Open client holds, checked under Spec *)

\* C28: whatever the interleaving of connect(), disconnect() and socket
\* callbacks, a client for which isConnected() is true holds a socket, and
\* that socket has opened and has not closed or failed since.
C28_OpenClientHoldsOpenSocket ==
    \A c \in DOMAIN clients :
        isConnected(World, c) =>
            /\ HeldSocket(c) # NoSocket
            /\ sockets[HeldSocket(c)].readyState = "OPEN"

----------------------------------------------------------------------------
(* Recording and the connection, checked under SpecPage *)

\* C29: recording implies an open connection and a live capture: isRecording
\* holds only while the client wsClientRef holds is connected, and while it
\* does not hold no processing node is connected and no microphone track is
\* live.
C29_RecordingImpliesOpenAndLive ==
    /\ isRecording => (wsClientRef # NoClient /\ clients[wsClientRef].connected)
    /\ ~isRecording =>
          /\ \A p \in DOMAIN processors : ~processors[p].connected
          /\ \A m \in DOMAIN mediaStreams : ~mediaStreams[m].live

----------------------------------------------------------------------------
(* The token regeneration modal, checked under SpecVoice *)

\* Regenerate Token and Cancel are enabled unless isRegenerating
RegenerateEnabled == ~voice.isRegenerating
CancelEnabled == ~voice.isRegenerating

\* C30: whenever the modal is open and no regenerateToken call is pending,
\* its Regenerate and Cancel buttons are enabled, also when the modal was
\* opened again by the failure of the connect that used a regenerated token.
C30_ModalNeverStuck ==
    (voice.showTokenModal /\ voice.regenerateCalls = 0) =>
        (RegenerateEnabled /\ CancelEnabled)

====
